---- MODULE Spec2Model ----
(***************************************************************************)
(* CPU scheduling simulator (src/main.c): FCFS, SJF, SRTF and Round Robin  *)
(* drivers run one after the other by main() over one process table.       *)
(* C arrays are functions over 0..n-1; the heap and the segment vector are *)
(* sequences holding their live entries (C index i is element i+1).        *)
(***************************************************************************)
EXTENDS Integers, Sequences, FiniteSets, TLC

\* ---------------------------------------------------------------- bounds
MaxN == 3
MaxArrival == 2
MaxBurst == 3
MaxQuantum == 3
FairMaxN == 2

\* ------------------------------------------------------- program constants
IDLE == -1
NoSeg == -2
Unset == -1
INT_MAX == 2147483647
\* Content of malloc'ed memory that the code never reads before writing it.
Indeterminate == -1

Algs == {"FCFS", "SJF", "SRTF", "RR"}

VARIABLES
    pr,         \* Proc table read by main: [0..n-1 -> [pid, arrival, burst]]
    n,          \* number of processes
    quantum,    \* run_rr's quantum argument (0 until run_rr is entered)
    pc,         \* position in main / in the running driver
    ord,        \* idx / ord: indices sorted by (arrival, pid)
    t,          \* simulated clock
    k,          \* next position of ord to admit (FCFS: loop index)
    cnt,        \* doneCnt / completed
    hp,         \* Heap: live entries h[0..sz-1]
    rem,        \* remaining burst per index (SRTF, RR)
    rq,         \* Queue of run_rr
    inq,        \* inq flags of run_rr
    cur,        \* cur / cur_pid: owner of the open segment
    seg_start,  \* start of the open segment
    sv,         \* SegVec of the running driver
    start,      \* start[] of the running driver
    end,        \* end[] of the running driver
    dispatch,   \* pids in the order the running driver dispatched them
    out         \* per driver: what it handed to print_gantt / csv_dump_algo

vars == <<pr, n, quantum, pc, ord, t, k, cnt, hp, rem, rq, inq, cur,
          seg_start, sv, start, end, dispatch, out>>

\* ------------------------------------------------------------- input tables
Pids == 1..MaxN

UniquePids(p) == \A i, j \in DOMAIN p : i # j => p[i].pid # p[j].pid

\* main lines 441-454: n > 0, arrival >= 0, burst > 0; pid uniqueness is the
\* input precondition of the drivers.
Tables(P) ==
    UNION { { p \in [0..(m-1) -> [pid : P, arrival : 0..MaxArrival, burst : 1..MaxBurst]] :
                UniquePids(p) } : m \in 1..MaxN }

\* ------------------------------------------------------------ segment vector
Seg(pid, s, e) == [pid |-> pid, start |-> s, end |-> e]

seg_push(v, s) == Append(v, s)

\* Variant of coalesce_from: adjacent segments are merged whoever owns them
RECURSIVE coalesce_from_any_owner(_, _, _)
coalesce_from_any_owner(v, i, w) ==
    IF i > Len(v) THEN w
    ELSE IF Len(w) = 0 THEN coalesce_from_any_owner(v, i + 1, <<v[i]>>)
    ELSE IF v[i].start = w[Len(w)].end
         THEN coalesce_from_any_owner(v, i + 1, [w EXCEPT ![Len(w)].end = v[i].end])
         ELSE coalesce_from_any_owner(v, i + 1, Append(w, v[i]))

\* lines 31-36: the loop of seg_coalesce from entry i on, w holding the kept prefix
RECURSIVE coalesce_from(_, _, _)
coalesce_from(v, i, w) ==
    IF i > Len(v) THEN w
    ELSE IF Len(w) = 0 THEN coalesce_from(v, i + 1, <<v[i]>>)
    ELSE IF v[i].pid = w[Len(w)].pid /\ v[i].start = w[Len(w)].end
         THEN coalesce_from(v, i + 1, [w EXCEPT ![Len(w)].end = v[i].end])
         ELSE coalesce_from(v, i + 1, Append(w, v[i]))

seg_coalesce(v) == IF Len(v) <= 1 THEN v ELSE coalesce_from(v, 1, <<>>)

\* ------------------------------------------------------------------ metrics
\* Variant of csv_row: waiting is what turnaround leaves after the response time
csv_row_wait_by_response(p, i, st, en) ==
    LET resp == st[i] - p[i].arrival
        tat  == en[i] - p[i].arrival
        wait == tat - resp
    IN [pid |-> p[i].pid, arrival |-> p[i].arrival, burst |-> p[i].burst,
        start |-> st[i], end |-> en[i], resp |-> resp, wait |-> wait, tat |-> tat]

\* lines 119-123 (the same arithmetic as print_avgs lines 130-132)
csv_row(p, i, st, en) ==
    LET resp == st[i] - p[i].arrival
        tat  == en[i] - p[i].arrival
        wait == tat - p[i].burst
    IN [pid |-> p[i].pid, arrival |-> p[i].arrival, burst |-> p[i].burst,
        start |-> st[i], end |-> en[i], resp |-> resp, wait |-> wait, tat |-> tat]

csv_dump_algo(p, m, st, en) == [i \in 0..(m-1) |-> csv_row(p, i, st, en)]

NoOutput == [ran |-> FALSE, sv |-> <<>>, rows |-> <<>>, dispatch |-> <<>>]

Output(v, p, m, st, en, d) ==
    [ran |-> TRUE, sv |-> v, rows |-> csv_dump_algo(p, m, st, en), dispatch |-> d]

\* ------------------------------------------------------------------ sorting
cmp_arrival_pid_index(p, ia, ib) ==
    IF p[ia].arrival # p[ib].arrival
    THEN (IF p[ia].arrival < p[ib].arrival THEN -1 ELSE 1)
    ELSE IF p[ia].pid # p[ib].pid
         THEN (IF p[ia].pid < p[ib].pid THEN -1 ELSE 1)
         ELSE 0

\* qsort(idx, n, ..., cmp_arrival_pid_index): any permutation of 0..n-1 that is
\* ordered by the comparator (qsort is not stable).
qsort(p, m) ==
    { o \in [0..(m-1) -> 0..(m-1)] :
        /\ \A a, b \in 0..(m-1) : a # b => o[a] # o[b]
        /\ \A a \in 0..(m-2) : cmp_arrival_pid_index(p, o[a], o[a+1]) <= 0 }

\* -------------------------------------------------------------------- heaps
Swap(h, i, j) == [h EXCEPT ![i+1] = h[j+1], ![j+1] = h[i+1]]

\* Variant of less_sjf: the arrival tie-break is missing
less_sjf_no_arrival(p, i, j) ==
    IF p[i].burst # p[j].burst THEN p[i].burst < p[j].burst
    ELSE p[i].pid < p[j].pid

less_sjf(p, i, j) ==
    IF p[i].burst # p[j].burst THEN p[i].burst < p[j].burst
    ELSE IF p[i].arrival # p[j].arrival THEN p[i].arrival < p[j].arrival
    ELSE p[i].pid < p[j].pid

RECURSIVE sift_up_sjf(_, _, _)
sift_up_sjf(p, h, i) ==
    IF i > 0
    THEN LET par == (i - 1) \div 2
         IN IF less_sjf(p, h[i+1], h[par+1])
            THEN sift_up_sjf(p, Swap(h, i, par), par)
            ELSE h
    ELSE h

heap_push_sjf(h, p, idx) == sift_up_sjf(p, Append(h, idx), Len(h))

RECURSIVE sift_down_sjf(_, _, _)
sift_down_sjf(p, h, i) ==
    LET sz == Len(h)
        l  == 2*i + 1
        r  == 2*i + 2
        m1 == IF l < sz /\ less_sjf(p, h[l+1], h[i+1]) THEN l ELSE i
        m  == IF r < sz /\ less_sjf(p, h[r+1], h[m1+1]) THEN r ELSE m1
    IN IF m = i THEN h ELSE sift_down_sjf(p, Swap(h, i, m), m)

\* Variant of heap_pop_sjf: the last entry is moved to the root and left there
heap_pop_sjf_no_sift(h, p) ==
    LET sz    == Len(h) - 1
        moved == IF sz = 0 THEN <<>> ELSE [SubSeq(h, 1, sz) EXCEPT ![1] = h[sz+1]]
    IN [ret |-> h[1], h |-> moved]

\* h[0] = h[--sz], then sift down; returns the popped index and the heap
heap_pop_sjf(h, p) ==
    LET sz    == Len(h) - 1
        moved == IF sz = 0 THEN <<>> ELSE [SubSeq(h, 1, sz) EXCEPT ![1] = h[sz+1]]
    IN [ret |-> h[1], h |-> sift_down_sjf(p, moved, 0)]

\* Variant of less_srtf: arrival is compared before the remaining time
less_srtf_arrival_first(p, rm, i, j) ==
    IF p[i].arrival # p[j].arrival THEN p[i].arrival < p[j].arrival
    ELSE IF rm[i] # rm[j] THEN rm[i] < rm[j]
    ELSE p[i].pid < p[j].pid

\* Variant of less_srtf: the pid tie-break is reversed
less_srtf_pid_desc(p, rm, i, j) ==
    IF rm[i] # rm[j] THEN rm[i] < rm[j]
    ELSE IF p[i].arrival # p[j].arrival THEN p[i].arrival < p[j].arrival
    ELSE p[i].pid > p[j].pid

less_srtf(p, rm, i, j) ==
    IF rm[i] # rm[j] THEN rm[i] < rm[j]
    ELSE IF p[i].arrival # p[j].arrival THEN p[i].arrival < p[j].arrival
    ELSE p[i].pid < p[j].pid

RECURSIVE sift_up_srtf(_, _, _, _)
sift_up_srtf(p, rm, h, i) ==
    IF i > 0
    THEN LET par == (i - 1) \div 2
         IN IF less_srtf(p, rm, h[i+1], h[par+1])
            THEN sift_up_srtf(p, rm, Swap(h, i, par), par)
            ELSE h
    ELSE h

heap_push_srtf(h, p, rm, idx) == sift_up_srtf(p, rm, Append(h, idx), Len(h))

RECURSIVE sift_down_srtf(_, _, _, _)
sift_down_srtf(p, rm, h, i) ==
    LET sz == Len(h)
        l  == 2*i + 1
        r  == 2*i + 2
        m1 == IF l < sz /\ less_srtf(p, rm, h[l+1], h[i+1]) THEN l ELSE i
        m  == IF r < sz /\ less_srtf(p, rm, h[r+1], h[m1+1]) THEN r ELSE m1
    IN IF m = i THEN h ELSE sift_down_srtf(p, rm, Swap(h, i, m), m)

heap_pop_srtf(h, p, rm) ==
    LET sz    == Len(h) - 1
        moved == IF sz = 0 THEN <<>> ELSE [SubSeq(h, 1, sz) EXCEPT ![1] = h[sz+1]]
    IN [ret |-> h[1], h |-> sift_down_srtf(p, rm, moved, 0)]

\* ------------------------------------------------------------ circular queue
q_init(cap) == [q |-> [j \in 0..(cap-1) |-> Indeterminate], cap |-> cap,
                front |-> 0, rear |-> 0, size |-> 0]

q_empty(Q) == Q.size = 0

\* q_push and q_pop leave through exit(1) on overflow / underflow
q_overflow(Q) == Q.size = Q.cap

q_push(Q, v) == [Q EXCEPT !.q[Q.rear] = v, !.rear = (Q.rear + 1) % Q.cap, !.size = Q.size + 1]

q_pop(Q) == [ret |-> Q.q[Q.front],
             q |-> [Q EXCEPT !.front = (Q.front + 1) % Q.cap, !.size = Q.size - 1]]

\* the queued indices, head first
q_items(Q) == [j \in 1..Q.size |-> Q.q[(Q.front + j - 1) % Q.cap]]

\* ---------------------------------------------------------------------- main
FreshLocals ==
    /\ ord = <<>> /\ t = 0 /\ k = 0 /\ cnt = 0 /\ hp = <<>> /\ rem = <<>>
    /\ rq = <<>> /\ inq = <<>> /\ cur = NoSeg /\ seg_start = 0 /\ sv = <<>>
    /\ start = <<>> /\ end = <<>> /\ dispatch = <<>>

InitOver(P) ==
    /\ pr \in Tables(P)
    /\ n = Cardinality(DOMAIN pr)
    /\ quantum = 0
    /\ pc = "run_fcfs"
    /\ out = [a \in Algs |-> NoOutput]
    /\ FreshLocals

Init == InitOver(Pids)

\* seg_free / free of a driver's arrays on return
Return(next) ==
    /\ pc' = next
    /\ ord' = <<>> /\ t' = 0 /\ k' = 0 /\ cnt' = 0 /\ hp' = <<>> /\ rem' = <<>>
    /\ rq' = <<>> /\ inq' = <<>> /\ cur' = NoSeg /\ seg_start' = 0 /\ sv' = <<>>
    /\ start' = <<>> /\ end' = <<>> /\ dispatch' = <<>>

\* --------------------------------------------------------------------- FCFS
FcfsSetup ==
    /\ pc = "run_fcfs"
    /\ \E o \in qsort(pr, n) : ord' = o
    /\ start' = [i \in 0..(n-1) |-> Indeterminate]
    /\ end' = [i \in 0..(n-1) |-> Indeterminate]
    /\ sv' = <<>> /\ t' = 0 /\ k' = 0
    /\ pc' = "fcfs_loop"
    /\ UNCHANGED <<pr, n, quantum, cnt, hp, rem, rq, inq, cur, seg_start, dispatch, out>>

FcfsStep ==
    /\ pc = "fcfs_loop" /\ k < n
    /\ LET i  == ord[k]
           t1 == IF t < pr[i].arrival THEN pr[i].arrival ELSE t
           v1 == IF t < pr[i].arrival THEN seg_push(sv, Seg(IDLE, t, pr[i].arrival)) ELSE sv
       IN /\ start' = [start EXCEPT ![i] = t1]
          /\ sv' = seg_push(v1, Seg(pr[i].pid, t1, t1 + pr[i].burst))
          /\ t' = t1 + pr[i].burst
          /\ end' = [end EXCEPT ![i] = t1 + pr[i].burst]
          /\ dispatch' = Append(dispatch, pr[i].pid)
    /\ k' = k + 1
    /\ UNCHANGED <<pr, n, quantum, pc, ord, cnt, hp, rem, rq, inq, cur, seg_start, out>>

FcfsFinish ==
    /\ pc = "fcfs_loop" /\ ~(k < n)
    /\ out' = [out EXCEPT !["FCFS"] = Output(seg_coalesce(sv), pr, n, start, end, dispatch)]
    /\ Return("run_sjf")
    /\ UNCHANGED <<pr, n, quantum>>

\* ---------------------------------------------------------------------- SJF
\* line 278 (also 321, 389): the clock starts at the first arrival
first_clock(p, o, m) == IF m > 0 /\ p[o[0]].arrival > 0 THEN p[o[0]].arrival ELSE 0

\* Variant of admit_sjf: admits one tick early (arrival <= t + 1)
RECURSIVE admit_sjf_early(_, _, _, _, _, _)
admit_sjf_early(p, o, m, clock, h, kk) ==
    IF kk < m /\ p[o[kk]].arrival <= clock + 1
    THEN admit_sjf_early(p, o, m, clock, heap_push_sjf(h, p, o[kk]), kk + 1)
    ELSE [h |-> h, k |-> kk]

\* line 281: while (k<n && pr[ord[k]].arrival <= t) { heap_push_sjf; k++; }
RECURSIVE admit_sjf(_, _, _, _, _, _)
admit_sjf(p, o, m, clock, h, kk) ==
    IF kk < m /\ p[o[kk]].arrival <= clock
    THEN admit_sjf(p, o, m, clock, heap_push_sjf(h, p, o[kk]), kk + 1)
    ELSE [h |-> h, k |-> kk]

SjfSetup ==
    /\ pc = "run_sjf"
    /\ \E o \in qsort(pr, n) : ord' = o /\ t' = first_clock(pr, o, n)
    /\ start' = [i \in 0..(n-1) |-> Indeterminate]
    /\ end' = [i \in 0..(n-1) |-> Indeterminate]
    /\ hp' = <<>> /\ sv' = <<>> /\ k' = 0 /\ cnt' = 0
    /\ pc' = "sjf_loop"
    /\ UNCHANGED <<pr, n, quantum, rem, rq, inq, cur, seg_start, dispatch, out>>

\* lines 282-288: heap empty after admission, a process is still to arrive
SjfIdle ==
    /\ pc = "sjf_loop" /\ cnt < n
    /\ LET a == admit_sjf(pr, ord, n, t, hp, k)
       IN /\ Len(a.h) = 0 /\ a.k < n
          /\ sv' = IF t < pr[ord[a.k]].arrival
                   THEN seg_push(sv, Seg(IDLE, t, pr[ord[a.k]].arrival)) ELSE sv
          /\ t' = pr[ord[a.k]].arrival
          /\ hp' = a.h /\ k' = a.k
    /\ UNCHANGED <<pr, n, quantum, pc, ord, cnt, rem, rq, inq, cur, seg_start,
                   start, end, dispatch, out>>

\* lines 289-293
SjfDispatch ==
    /\ pc = "sjf_loop" /\ cnt < n
    /\ LET a == admit_sjf(pr, ord, n, t, hp, k)
       IN /\ Len(a.h) # 0
          /\ LET po == heap_pop_sjf(a.h, pr)
                 i  == po.ret
             IN /\ hp' = po.h
                /\ start' = [start EXCEPT ![i] = t]
                /\ sv' = seg_push(sv, Seg(pr[i].pid, t, t + pr[i].burst))
                /\ t' = t + pr[i].burst
                /\ end' = [end EXCEPT ![i] = t + pr[i].burst]
                /\ dispatch' = Append(dispatch, pr[i].pid)
          /\ k' = a.k
    /\ cnt' = cnt + 1
    /\ UNCHANGED <<pr, n, quantum, pc, ord, rem, rq, inq, cur, seg_start, out>>

\* line 287: "else break" -- heap empty after admission and nothing left to admit
sjf_breaks(p, o, m, clock, h, kk) ==
    LET a == admit_sjf(p, o, m, clock, h, kk) IN Len(a.h) = 0 /\ ~(a.k < m)

\* the while loop of line 280 is left: its condition fails or line 287 breaks
sjf_loop_exits(p, o, m, clock, h, kk, c) ==
    IF c < m THEN sjf_breaks(p, o, m, clock, h, kk) ELSE TRUE

SjfFinish ==
    /\ pc = "sjf_loop" /\ sjf_loop_exits(pr, ord, n, t, hp, k, cnt)
    /\ out' = [out EXCEPT !["SJF"] = Output(seg_coalesce(sv), pr, n, start, end, dispatch)]
    /\ Return("run_srtf")
    /\ UNCHANGED <<pr, n, quantum>>

\* --------------------------------------------------------------------- SRTF
\* line 326
RECURSIVE admit_srtf(_, _, _, _, _, _, _)
admit_srtf(p, rm, o, m, clock, h, kk) ==
    IF kk < m /\ p[o[kk]].arrival <= clock
    THEN admit_srtf(p, rm, o, m, clock, heap_push_srtf(h, p, rm, o[kk]), kk + 1)
    ELSE [h |-> h, k |-> kk]

\* Variant of switch_owner: forgets seg_start = t when the owner changes
switch_owner_stale(v, c, ss, clock, owner) ==
    IF c # owner
    THEN [sv |-> IF c # NoSeg THEN seg_push(v, Seg(c, ss, clock)) ELSE v,
          cur |-> owner, seg_start |-> ss]
    ELSE [sv |-> v, cur |-> c, seg_start |-> ss]

\* if (cur != owner) { if (cur != -2) seg_push(cur, seg_start, t); cur = owner; seg_start = t; }
switch_owner(v, c, ss, clock, owner) ==
    IF c # owner
    THEN [sv |-> IF c # NoSeg THEN seg_push(v, Seg(c, ss, clock)) ELSE v,
          cur |-> owner, seg_start |-> clock]
    ELSE [sv |-> v, cur |-> c, seg_start |-> ss]

\* if (cur != -2) seg_push(cur, seg_start, t);  (lines 355, 423)
close_open(v, c, ss, clock) == IF c # NoSeg THEN seg_push(v, Seg(c, ss, clock)) ELSE v

\* Variant of first_start: overwrites start[i] at every dispatch
first_start_always(st, i, clock) == [st EXCEPT ![i] = clock]

\* if (start[i]==-1) start[i]=t;  (lines 337, 408)
first_start(st, i, clock) == IF st[i] = Unset THEN [st EXCEPT ![i] = clock] ELSE st

SrtfSetup ==
    /\ pc = "run_srtf"
    /\ \E o \in qsort(pr, n) :
          /\ ord' = o
          /\ t' = first_clock(pr, o, n)
          /\ seg_start' = first_clock(pr, o, n)
    /\ start' = [i \in 0..(n-1) |-> Unset]
    /\ end' = [i \in 0..(n-1) |-> Unset]
    /\ rem' = [i \in 0..(n-1) |-> pr[i].burst]
    /\ hp' = <<>> /\ sv' = <<>> /\ k' = 0 /\ cnt' = 0
    /\ cur' = NoSeg
    /\ pc' = "srtf_loop"
    /\ UNCHANGED <<pr, n, quantum, rq, inq, dispatch, out>>

\* lines 327-334
SrtfIdle ==
    /\ pc = "srtf_loop" /\ cnt < n
    /\ LET a == admit_srtf(pr, rem, ord, n, t, hp, k)
       IN /\ Len(a.h) = 0 /\ a.k < n
          /\ LET sw == switch_owner(sv, cur, seg_start, t, IDLE)
             IN sv' = seg_push(sw.sv, Seg(IDLE, t, pr[ord[a.k]].arrival))
          /\ t' = pr[ord[a.k]].arrival
          /\ cur' = NoSeg /\ seg_start' = pr[ord[a.k]].arrival
          /\ hp' = a.h /\ k' = a.k
    /\ UNCHANGED <<pr, n, quantum, pc, ord, cnt, rem, rq, inq, start, end, dispatch, out>>

\* Variant of next_arrival: pending arrivals are not looked at
next_arrival_none(p, o, m, kk) == INT_MAX

\* Variant of next_arrival: reads the last admitted entry (ord[k-1]) instead of ord[k]
next_arrival_prev(p, o, m, kk) == IF kk < m THEN p[o[kk-1]].arrival ELSE INT_MAX

next_arrival(p, o, m, kk) == IF kk < m THEN p[o[kk]].arrival ELSE INT_MAX

\* lines 336-346: the peeked process finishes before the next arrival
SrtfComplete ==
    /\ pc = "srtf_loop" /\ cnt < n
    /\ LET a == admit_srtf(pr, rem, ord, n, t, hp, k)
       IN /\ Len(a.h) # 0
          /\ LET i           == a.h[1]
                 finish_time == t + rem[i]
                 sw          == switch_owner(sv, cur, seg_start, t, pr[i].pid)
                 rem1        == [rem EXCEPT ![i] = 0]
             IN /\ finish_time <= next_arrival(pr, ord, n, a.k)
                /\ start' = first_start(start, i, t)
                /\ sv' = sw.sv /\ cur' = sw.cur /\ seg_start' = sw.seg_start
                /\ t' = finish_time
                /\ rem' = rem1
                /\ hp' = heap_pop_srtf(a.h, pr, rem1).h
                /\ end' = [end EXCEPT ![i] = finish_time]
                /\ dispatch' = Append(dispatch, pr[i].pid)
          /\ k' = a.k
    /\ cnt' = cnt + 1
    /\ UNCHANGED <<pr, n, quantum, pc, ord, rq, inq, out>>

\* lines 347-353: run until the next arrival, then pop and push back
SrtfPreempt ==
    /\ pc = "srtf_loop" /\ cnt < n
    /\ LET a == admit_srtf(pr, rem, ord, n, t, hp, k)
       IN /\ Len(a.h) # 0
          /\ LET i           == a.h[1]
                 finish_time == t + rem[i]
                 na          == next_arrival(pr, ord, n, a.k)
                 run_len     == na - t
                 sw          == switch_owner(sv, cur, seg_start, t, pr[i].pid)
                 rem1        == [rem EXCEPT ![i] = rem[i] - run_len]
             IN /\ ~(finish_time <= na)
                /\ start' = first_start(start, i, t)
                /\ sv' = sw.sv /\ cur' = sw.cur /\ seg_start' = sw.seg_start
                /\ t' = t + run_len
                /\ rem' = rem1
                /\ hp' = heap_push_srtf(heap_pop_srtf(a.h, pr, rem1).h, pr, rem1, i)
                /\ dispatch' = Append(dispatch, pr[i].pid)
          /\ k' = a.k
    /\ UNCHANGED <<pr, n, quantum, pc, ord, cnt, rq, inq, end, out>>

\* line 334: "else break"
srtf_breaks(p, rm, o, m, clock, h, kk) ==
    LET a == admit_srtf(p, rm, o, m, clock, h, kk) IN Len(a.h) = 0 /\ ~(a.k < m)

srtf_loop_exits(p, rm, o, m, clock, h, kk, c) ==
    IF c < m THEN srtf_breaks(p, rm, o, m, clock, h, kk) ELSE TRUE

SrtfFinish ==
    /\ pc = "srtf_loop" /\ srtf_loop_exits(pr, rem, ord, n, t, hp, k, cnt)
    /\ out' = [out EXCEPT !["SRTF"] =
                 Output(seg_coalesce(close_open(sv, cur, seg_start, t)), pr, n, start, end, dispatch)]
    /\ Return("run_rr")
    /\ UNCHANGED <<pr, n, quantum>>

\* ------------------------------------------------------------- Round Robin
\* lines 391, 402: while (k<n && arrival <= t) { q_push; inq = 1; k++; }
RECURSIVE rr_admit(_, _, _, _, _, _, _)
rr_admit(p, o, m, clock, Q, in, kk) ==
    IF kk < m /\ p[o[kk]].arrival <= clock
    THEN IF q_overflow(Q)
         THEN [q |-> Q, inq |-> in, k |-> kk, exit |-> TRUE]
         ELSE rr_admit(p, o, m, clock, q_push(Q, o[kk]), [in EXCEPT ![o[kk]] = 1], kk + 1)
    ELSE [q |-> Q, inq |-> in, k |-> kk, exit |-> FALSE]

\* Variant of rr_admit_new: the inq test is inverted
RECURSIVE rr_admit_new_inverted(_, _, _, _, _, _, _)
rr_admit_new_inverted(p, o, m, clock, Q, in, kk) ==
    IF kk < m /\ p[o[kk]].arrival <= clock
    THEN IF in[o[kk]] # 0
         THEN IF q_overflow(Q)
              THEN [q |-> Q, inq |-> in, k |-> kk, exit |-> TRUE]
              ELSE rr_admit_new_inverted(p, o, m, clock, q_push(Q, o[kk]), [in EXCEPT ![o[kk]] = 1], kk + 1)
         ELSE rr_admit_new_inverted(p, o, m, clock, Q, in, kk + 1)
    ELSE [q |-> Q, inq |-> in, k |-> kk, exit |-> FALSE]

\* Variant of rr_admit_new: an arrival exactly at the new clock is not yet admitted
RECURSIVE rr_admit_new_strict(_, _, _, _, _, _, _)
rr_admit_new_strict(p, o, m, clock, Q, in, kk) ==
    IF kk < m /\ p[o[kk]].arrival < clock
    THEN IF in[o[kk]] = 0
         THEN IF q_overflow(Q)
              THEN [q |-> Q, inq |-> in, k |-> kk, exit |-> TRUE]
              ELSE rr_admit_new_strict(p, o, m, clock, q_push(Q, o[kk]), [in EXCEPT ![o[kk]] = 1], kk + 1)
         ELSE rr_admit_new_strict(p, o, m, clock, Q, in, kk + 1)
    ELSE [q |-> Q, inq |-> in, k |-> kk, exit |-> FALSE]

\* line 418: while (k<n && arrival <= t) { if (!inq) { q_push; inq = 1; } k++; }
RECURSIVE rr_admit_new(_, _, _, _, _, _, _)
rr_admit_new(p, o, m, clock, Q, in, kk) ==
    IF kk < m /\ p[o[kk]].arrival <= clock
    THEN IF in[o[kk]] = 0
         THEN IF q_overflow(Q)
              THEN [q |-> Q, inq |-> in, k |-> kk, exit |-> TRUE]
              ELSE rr_admit_new(p, o, m, clock, q_push(Q, o[kk]), [in EXCEPT ![o[kk]] = 1], kk + 1)
         ELSE rr_admit_new(p, o, m, clock, Q, in, kk + 1)
    ELSE [q |-> Q, inq |-> in, k |-> kk, exit |-> FALSE]

\* Variant of rr_slice: the popped process runs to completion
rr_slice_whole(rm, qt) == rm

\* Variant of rr_slice: always a full quantum, whatever remains
rr_slice_quantum(rm, qt) == qt

\* Variant of rr_slice: ignores the quantum and runs one tick at a time
rr_slice_unit(rm, qt) == 1

\* line 415
rr_slice(rm, qt) == IF rm < qt THEN rm ELSE qt

\* Variant of rr_after_slice: i is requeued even when it has finished
rr_after_slice_requeue_done(p, o, m, clock, Q, in, kk, i, rm) ==
    LET a == rr_admit_new(p, o, m, clock, Q, in, kk)
    IN IF a.exit THEN a
       ELSE IF q_overflow(a.q) THEN [a EXCEPT !.exit = TRUE]
       ELSE [a EXCEPT !.q = q_push(a.q, i), !.inq[i] = 1]

\* Variant of rr_after_slice: requeues i first, then admits the new arrivals
rr_after_slice_requeue_first(p, o, m, clock, Q, in, kk, i, rm) ==
    LET b == IF rm[i] = 0 THEN [q |-> Q, inq |-> in, k |-> kk, exit |-> FALSE]
             ELSE IF q_overflow(Q) THEN [q |-> Q, inq |-> in, k |-> kk, exit |-> TRUE]
             ELSE [q |-> q_push(Q, i), inq |-> [in EXCEPT ![i] = 1], k |-> kk, exit |-> FALSE]
    IN IF b.exit THEN b ELSE rr_admit_new(p, o, m, clock, b.q, b.inq, kk)

\* lines 418-421: admit the arrivals up to the new clock, then requeue i if unfinished
rr_after_slice(p, o, m, clock, Q, in, kk, i, rm) ==
    LET a == rr_admit_new(p, o, m, clock, Q, in, kk)
    IN IF a.exit \/ rm[i] = 0 THEN a
       ELSE IF q_overflow(a.q) THEN [a EXCEPT !.exit = TRUE]
       ELSE [a EXCEPT !.q = q_push(a.q, i), !.inq[i] = 1]

\* lines 375-393 for a quantum that parse_args accepted (> 0)
RrSetup ==
    /\ pc = "run_rr"
    /\ \E qt \in 1..MaxQuantum : quantum' = qt
    /\ \E o \in qsort(pr, n) :
          LET t0 == first_clock(pr, o, n)
              a  == rr_admit(pr, o, n, t0, q_init(n), [i \in 0..(n-1) |-> 0], 0)
          IN /\ ord' = o /\ t' = t0 /\ seg_start' = t0
             /\ rq' = a.q /\ inq' = a.inq /\ k' = a.k
             /\ pc' = IF a.exit THEN "exit" ELSE "rr_loop"
    /\ start' = [i \in 0..(n-1) |-> Unset]
    /\ end' = [i \in 0..(n-1) |-> Unset]
    /\ rem' = [i \in 0..(n-1) |-> pr[i].burst]
    /\ sv' = <<>> /\ cnt' = 0
    /\ cur' = NoSeg
    /\ UNCHANGED <<pr, n, hp, dispatch, out>>

\* lines 396-404
RrIdle ==
    /\ pc = "rr_loop" /\ cnt < n
    /\ q_empty(rq) /\ k < n
    /\ LET sw == switch_owner(sv, cur, seg_start, t, IDLE)
       IN sv' = seg_push(sw.sv, Seg(IDLE, t, pr[ord[k]].arrival))
    /\ t' = pr[ord[k]].arrival
    /\ cur' = NoSeg /\ seg_start' = pr[ord[k]].arrival
    /\ LET a == rr_admit(pr, ord, n, pr[ord[k]].arrival, rq, inq, k)
       IN /\ rq' = a.q /\ inq' = a.inq /\ k' = a.k
          /\ pc' = IF a.exit THEN "exit" ELSE pc
    /\ UNCHANGED <<pr, n, quantum, ord, cnt, hp, rem, start, end, dispatch, out>>

\* lines 407-421
RrDispatch ==
    /\ pc = "rr_loop" /\ cnt < n
    /\ ~q_empty(rq)
    /\ LET po    == q_pop(rq)
           i     == po.ret
           in1   == [inq EXCEPT ![i] = 0]
           sw    == switch_owner(sv, cur, seg_start, t, pr[i].pid)
           slice == rr_slice(rem[i], quantum)
           rem1  == [rem EXCEPT ![i] = rem[i] - slice]
           a     == rr_after_slice(pr, ord, n, t + slice, po.q, in1, k, i, rem1)
       IN /\ start' = first_start(start, i, t)
          /\ sv' = sw.sv /\ cur' = sw.cur /\ seg_start' = sw.seg_start
          /\ t' = t + slice
          /\ rem' = rem1
          /\ rq' = a.q /\ inq' = a.inq /\ k' = a.k
          /\ pc' = IF a.exit THEN "exit" ELSE pc
          /\ end' = IF ~a.exit /\ rem1[i] = 0 THEN [end EXCEPT ![i] = t + slice] ELSE end
          /\ cnt' = IF ~a.exit /\ rem1[i] = 0 THEN cnt + 1 ELSE cnt
          /\ dispatch' = Append(dispatch, pr[i].pid)
    /\ UNCHANGED <<pr, n, quantum, ord, hp, out>>

\* line 404: "else break"
rr_breaks(Q, m, kk) == q_empty(Q) /\ ~(kk < m)

rr_loop_exits(Q, m, kk, c) == IF c < m THEN rr_breaks(Q, m, kk) ELSE TRUE

RrFinish ==
    /\ pc = "rr_loop" /\ rr_loop_exits(rq, n, k, cnt)
    /\ out' = [out EXCEPT !["RR"] =
                 Output(seg_coalesce(close_open(sv, cur, seg_start, t)), pr, n, start, end, dispatch)]
    /\ Return("done")
    /\ UNCHANGED <<pr, n, quantum>>

Next ==
    \/ FcfsSetup \/ FcfsStep \/ FcfsFinish
    \/ SjfSetup \/ SjfIdle \/ SjfDispatch \/ SjfFinish
    \/ SrtfSetup \/ SrtfIdle \/ SrtfComplete \/ SrtfPreempt \/ SrtfFinish
    \/ RrSetup \/ RrIdle \/ RrDispatch \/ RrFinish

Spec == Init /\ [][Next]_vars

\* main runs the drivers to completion on one thread: a step that can be taken is
\* taken.  Checked over the tables of at most FairMaxN processes.
FairInit == Init /\ n <= FairMaxN

FairSpec == FairInit /\ [][Next]_vars /\ WF_vars(Next)

\* A process table as read by main lines 441-454 from the rows <<pid, arrival, burst>>.
Table(rows) ==
    [i \in 0..(Len(rows)-1) |->
        [pid |-> rows[i+1][1], arrival |-> rows[i+1][2], burst |-> rows[i+1][3]]]

\* The pinned inputs of the scenarios: the Round Robin trace, the textbook SRTF
\* example, the single late process, and two processes separated by a gap.
RrScenario   == Table(<< <<1, 0, 5>>, <<2, 1, 3>>, <<3, 2, 1>> >>)
SrtfScenario == Table(<< <<1, 0, 7>>, <<2, 2, 4>>, <<3, 4, 1>>, <<4, 5, 4>> >>)
LateScenario == Table(<< <<1, 5, 3>> >>)
GapScenario  == Table(<< <<1, 0, 2>>, <<2, 4, 1>> >>)
ScenarioTables == {RrScenario, SrtfScenario, LateScenario, GapScenario}

ScenarioInit ==
    /\ pr \in ScenarioTables
    /\ n = Cardinality(DOMAIN pr)
    /\ quantum = 0
    /\ pc = "run_fcfs"
    /\ out = [a \in Algs |-> NoOutput]
    /\ FreshLocals

ScenarioSpec == ScenarioInit /\ [][Next]_vars

\* Tables whose pids are arbitrary integers, the values of the IDLE owner and of
\* the "no open segment" marker among them.
AnyPids == {NoSeg, IDLE, 1}

AnyPidInit == InitOver(AnyPids)

AnyPidSpec == AnyPidInit /\ [][Next]_vars
\* ================================================================== claims
IsSet(x) == x # Unset /\ x # Indeterminate

Ran(a) == out[a].ran

WellFormed(v) ==
    /\ \A j \in 1..Len(v) : v[j].start < v[j].end
    /\ \A j \in 1..(Len(v) - 1) : v[j].end = v[j+1].start /\ v[j].pid # v[j+1].pid

\* C1: the final segment list of every driver has start < end in every segment,
\* each segment ends where the next one starts, and no two consecutive segments
\* have the same owner.
C1_SegmentsWellFormed == \A a \in Algs : Ran(a) => WellFormed(out[a].sv)

\* a preemptive driver returned a timeline with an IDLE gap between process segments
C1_Witness ==
    /\ pc = "done"
    /\ \E j \in 2..(Len(out["RR"].sv) - 1) :
          /\ out["RR"].sv[j].pid = IDLE
          /\ out["RR"].sv[j-1].pid # IDLE
    /\ Len(out["SRTF"].sv) >= 4
    /\ Len(out["FCFS"].sv) >= 2

IdleGapResult(a) ==
    LET p == pr[0]
        r == out[a].rows[0]
    IN /\ out[a].sv = <<Seg(IDLE, 0, p.arrival), Seg(p.pid, p.arrival, p.arrival + p.burst)>>
       /\ r.start = p.arrival /\ r.end = p.arrival + p.burst
       /\ r.resp = 0 /\ r.wait = 0 /\ r.tat = p.burst

\* C2: for a single process arriving at a > 0 with burst b, each of the four
\* drivers reports IDLE [0,a) followed by [a,a+b) owned by the process, with
\* Start = a, End = a+b, response = 0, waiting = 0, turnaround = b.
C2_IdleGapScenario ==
    (pc = "done" /\ n = 1 /\ pr[0].arrival > 0) => \A a \in Algs : IdleGapResult(a)

\* position of index x in the queue Q, head = 1 (0 when absent)
QPos(Q, x) ==
    IF \E j \in 1..Q.size : q_items(Q)[j] = x
    THEN CHOOSE j \in 1..Q.size : q_items(Q)[j] = x
    ELSE 0

\* C3: when run_rr runs i for a slice from old_clock to new_clock and i is not
\* finished, every process that arrived in (old_clock, new_clock] is in the queue
\* ahead of the requeued i.
C3_AdmissionBeforeRequeue ==
    [][ (pc = "rr_loop" /\ pc' = "rr_loop" /\ dispatch' # dispatch) =>
          LET i == q_items(rq)[1]
          IN rem'[i] > 0 =>
               /\ QPos(rq', i) = rq'.size
               /\ \A j \in 0..(n-1) :
                    (t < pr[j].arrival /\ pr[j].arrival <= t') =>
                        (QPos(rq', j) > 0 /\ QPos(rq', j) < QPos(rq', i)) ]_vars

\* the queue holds a process that arrived during the last slice ahead of the
\* process that ran that slice and was requeued
C3_Witness ==
    /\ pc = "rr_loop" /\ rq.size >= 2
    /\ LET i == q_items(rq)[rq.size]
       IN /\ start[i] # Unset /\ rem[i] > 0 /\ rem[i] < pr[i].burst
          /\ dispatch[Len(dispatch)] = pr[i].pid
          /\ \E j \in 0..(n-1) :
                /\ start[j] = Unset
                /\ pr[j].arrival > t - quantum /\ pr[j].arrival <= t
                /\ pr[j].arrival > start[i]
                /\ QPos(rq, j) > 0 /\ QPos(rq, j) < rq.size

StartsAfterArrival(st) ==
    \A i \in DOMAIN st : IsSet(st[i]) => st[i] >= pr[i].arrival

SegsAfterArrival(v) ==
    \A j \in 1..Len(v) : \A i \in 0..(n-1) :
        v[j].pid = pr[i].pid => v[j].start >= pr[i].arrival

\* C4: no process is held in the ready heap or queue, or dispatched, while its
\* arrival exceeds the clock: Start[i] >= arrival[i], and every segment owned by
\* pid[i] begins at or after arrival[i].
C4_NoEarlyDispatch ==
    /\ \A j \in 1..Len(hp) : pr[hp[j]].arrival <= t
    /\ pc = "rr_loop" => \A j \in 1..rq.size : pr[q_items(rq)[j]].arrival <= t
    /\ StartsAfterArrival(start)
    /\ SegsAfterArrival(sv)
    /\ \A i \in 0..(n-1) : cur = pr[i].pid => seg_start >= pr[i].arrival
    /\ \A a \in Algs : Ran(a) =>
          /\ SegsAfterArrival(out[a].sv)
          /\ \A i \in 0..(n-1) : out[a].rows[i].start >= pr[i].arrival
                                  /\ out[a].rows[i].resp >= 0

\* a process was dispatched, the heap holds an arrived process, and the next
\* process of the admission order has not arrived yet and is not in the heap
C4_Witness ==
    /\ pc \in {"sjf_loop", "srtf_loop"}
    /\ Len(hp) >= 1 /\ k < n /\ pr[ord[k]].arrival > t
    /\ \A j \in 1..Len(hp) : hp[j] # ord[k]
    /\ \E i \in 0..(n-1) : IsSet(start[i]) /\ sv # <<>>

\* C5: on return End[i] - Start[i] = burst[i] under FCFS and SJF, and
\* End[i] - Start[i] >= burst[i] under SRTF and RR.
C5_SpanVersusBurst ==
    \A a \in Algs : Ran(a) =>
        \A i \in 0..(n-1) :
            LET r == out[a].rows[i]
            IN IF a \in {"FCFS", "SJF"}
               THEN r.end - r.start = r.burst
               ELSE r.end - r.start >= r.burst

\* all four drivers returned; SRTF and RR each stretched some process beyond its burst
C5_Witness ==
    /\ pc = "done"
    /\ \E i \in 0..(n-1) : out["SRTF"].rows[i].end - out["SRTF"].rows[i].start > pr[i].burst
    /\ \E i \in 0..(n-1) : out["RR"].rows[i].end - out["RR"].rows[i].start > pr[i].burst
InLoop == pc \in {"fcfs_loop", "sjf_loop", "srtf_loop", "rr_loop"}

\* every loop iteration (dispatch step or idle jump) moves the clock forward
ClockAdvances == (InLoop /\ pc' = pc) => t' > t

\* a driver leaves its loop with every process complete and Start, End written
ReturnsComplete ==
    (InLoop /\ pc' # pc) =>
        /\ pc' # "exit"
        /\ pc # "fcfs_loop" => cnt = n
        /\ \A i \in 0..(n-1) :
              /\ IsSet(start[i]) /\ IsSet(end[i])
              /\ pc \in {"srtf_loop", "rr_loop"} => rem[i] = 0

\* C6: every driver's loop terminates: each iteration strictly increases the
\* clock, and on return all n processes are complete with Start and End set.
C6_Terminates ==
    /\ [][ClockAdvances /\ ReturnsComplete]_vars
    /\ <>(pc = "done" /\ \A a \in Algs : Ran(a))

\* main returned after runs in which RR preempted and jumped over an idle gap
C6_Witness ==
    /\ pc = "done" /\ n >= 2
    /\ \A a \in Algs : Ran(a)
    /\ \E j \in 1..Len(out["RR"].sv) : out["RR"].sv[j].pid = IDLE
    /\ Len(out["RR"].dispatch) > n

\* C7: "ready heap/queue empty, every process admitted, fewer than n complete"
\* is unreachable in run_sjf, run_srtf and run_rr: the "else break" exits are
\* never taken.
C7_BreakUnreachable ==
    /\ (pc = "sjf_loop" /\ cnt < n) => ~sjf_breaks(pr, ord, n, t, hp, k)
    /\ (pc = "srtf_loop" /\ cnt < n) => ~srtf_breaks(pr, rem, ord, n, t, hp, k)
    /\ (pc = "rr_loop" /\ cnt < n) => ~rr_breaks(rq, n, k)

\* the ready heap / queue is empty with processes incomplete, and one is still to arrive
C7_Witness ==
    /\ cnt >= 1 /\ cnt < n /\ k < n
    /\ \/ pc = "srtf_loop" /\ Len(admit_srtf(pr, rem, ord, n, t, hp, k).h) = 0
       \/ pc = "rr_loop" /\ q_empty(rq)

EqualBursts == \A i, j \in 0..(n-1) : pr[i].burst = pr[j].burst

SameTimes(a, b) ==
    \A i \in 0..(n-1) : /\ out[a].rows[i].start = out[b].rows[i].start
                        /\ out[a].rows[i].end = out[b].rows[i].end

\* processes start in the order (arrival ascending, then pid ascending)
InAdmissionOrder(a) ==
    \A i, j \in 0..(n-1) :
        cmp_arrival_pid_index(pr, i, j) < 0 => out[a].rows[i].start < out[a].rows[j].start

\* C8: when all bursts are equal, run_fcfs and run_sjf dispatch in the same
\* order (arrival ascending, then pid ascending) and give the same Start[i] and
\* End[i] for every process.
C8_FcfsEqualsSjfOnEqualBursts ==
    (Ran("FCFS") /\ Ran("SJF") /\ EqualBursts) =>
        /\ SameTimes("FCFS", "SJF")
        /\ out["FCFS"].dispatch = out["SJF"].dispatch
        /\ InAdmissionOrder("SJF")

\* equal bursts; a process with the larger pid arrived first and was dispatched by
\* SJF while the later arrival with the smaller pid was already waiting
C8_Witness ==
    /\ Ran("FCFS") /\ Ran("SJF") /\ EqualBursts /\ n >= 3
    /\ \E i, j \in 0..(n-1) :
          /\ pr[i].arrival < pr[j].arrival /\ pr[i].pid > pr[j].pid
          /\ out["SJF"].rows[i].start >= pr[j].arrival
          /\ out["SJF"].rows[i].start < out["SJF"].rows[j].start

SameArrival == \A i, j \in 0..(n-1) : pr[i].arrival = pr[j].arrival

\* C9: when all processes arrive at the same time, run_srtf and run_sjf give
\* the same segment list and the same Start[i] and End[i] for every process.
C9_SrtfEqualsSjfOnSameArrival ==
    (Ran("SJF") /\ Ran("SRTF") /\ SameArrival) =>
        /\ out["SRTF"].sv = out["SJF"].sv
        /\ SameTimes("SRTF", "SJF")

\* three processes arrive together, two of them with the same burst
C9_Witness ==
    /\ Ran("SJF") /\ Ran("SRTF") /\ SameArrival /\ n >= 3
    /\ \E i, j \in 0..(n-1) : i # j /\ pr[i].burst = pr[j].burst
    /\ \E i, j \in 0..(n-1) : pr[i].burst < pr[j].burst
    /\ Len(out["SRTF"].sv) = n

QuantumCoversBursts == \A i \in 0..(n-1) : quantum >= pr[i].burst

\* C10: with quantum >= the maximum burst, run_rr never preempts, dispatches in
\* admission order (arrival ascending, then pid ascending), and gives the same
\* Start[i] and End[i] as run_fcfs.
C10_RrEqualsFcfsOnLargeQuantum ==
    (Ran("FCFS") /\ Ran("RR") /\ QuantumCoversBursts) =>
        /\ SameTimes("RR", "FCFS")
        /\ Len(out["RR"].dispatch) = n
        /\ out["RR"].dispatch = out["FCFS"].dispatch
        /\ InAdmissionOrder("RR")
        /\ \A i \in 0..(n-1) : out["RR"].rows[i].end - out["RR"].rows[i].start = pr[i].burst

\* the quantum equals the largest burst (> 1), and a process had to wait in the queue
C10_Witness ==
    /\ Ran("FCFS") /\ Ran("RR") /\ QuantumCoversBursts /\ n >= 2
    /\ \E i \in 0..(n-1) : pr[i].burst = quantum /\ quantum > 1
    /\ \E i \in 0..(n-1) : out["RR"].rows[i].resp > 0
\* ---------------------------------------------------------------- C11
RrScenarioDone == pr = RrScenario /\ quantum = 2 /\ Ran("RR")

\* C11 as stated: on the table {(1,0,5),(2,1,3),(3,2,1)} with quantum 2, run_rr
\* pops the pids in the sequence 1,2,1,3,2,1.
C11_RrTraceAsStated ==
    RrScenarioDone => out["RR"].dispatch = <<1, 2, 1, 3, 2, 1>>

\* C11 amended: on the table {(1,0,5),(2,1,3),(3,2,1)} with quantum 2, run_rr
\* pops the pids in the sequence 1,2,3,1,2,1 (pid 3, arriving at clock 2, is
\* admitted at the end of the first slice ahead of the requeued pid 1), and
\* pid 1 ends at 9.
C11_RrTrace ==
    RrScenarioDone =>
        /\ out["RR"].dispatch = <<1, 2, 3, 1, 2, 1>>
        /\ out["RR"].rows[0].end = 9

C11_Witness ==
    /\ RrScenarioDone
    /\ Len(out["RR"].dispatch) = 6
    /\ out["RR"].sv[Len(out["RR"].sv)].end = 9

\* ---------------------------------------------------------------- C12
\* pids in the order in which the rows of driver a report their End
CompletionOrder(a) ==
    LET rows == out[a].rows
        Before(i, j) == rows[i].end < rows[j].end
    IN CHOOSE s \in [1..n -> 0..(n-1)] :
          /\ \A x, y \in 1..n : x < y => Before(s[x], s[y])

PidsOf(a, s) == [x \in 1..n |-> out[a].rows[s[x]].pid]

SrtfScenarioDone == pr = SrtfScenario /\ Ran("SRTF")

\* C12: on the table {(1,0,7),(2,2,4),(3,4,1),(4,5,4)} run_srtf completes the
\* processes in the order pid 3, 2, 4, 1 and its coalesced segments are
\* P1[0,2), P2[2,4), P3[4,5), P2[5,7), P4[7,11), P1[11,16).
C12_SrtfTextbook ==
    SrtfScenarioDone =>
        /\ PidsOf("SRTF", CompletionOrder("SRTF")) = <<3, 2, 4, 1>>
        /\ out["SRTF"].sv = << Seg(1, 0, 2), Seg(2, 2, 4), Seg(3, 4, 5),
                               Seg(2, 5, 7), Seg(4, 7, 11), Seg(1, 11, 16) >>

C12_Witness ==
    /\ SrtfScenarioDone
    /\ Len(out["SRTF"].sv) = 6
    /\ \A i \in 0..(n-1) : IsSet(out["SRTF"].rows[i].end)

\* ---------------------------------------------------------------- C13
\* total length of the segments of v owned by pid
RECURSIVE SegTotal(_, _)
SegTotal(v, pid) ==
    IF v = <<>> THEN 0
    ELSE (IF Head(v).pid = pid THEN Head(v).end - Head(v).start ELSE 0)
         + SegTotal(Tail(v), pid)

\* C13: for tables with unique pids drawn from any integers, -1 and -2 included,
\* each driver's final segment list holds for every process segments owned by
\* its pid whose total length is its burst.
C13_AnyPidSupported ==
    \A a \in Algs : Ran(a) =>
        \A i \in 0..(n-1) : SegTotal(out[a].sv, pr[i].pid) = pr[i].burst

\* ---------------------------------------------------------------- C14
NonPreemptive == {"FCFS", "SJF"}

\* C14 as stated: in every driver's output turnaround = response + waiting for
\* every process, and response = waiting under FCFS and SJF.
C14_MetricsAsStated ==
    \A a \in Algs : Ran(a) =>
        \A i \in 0..(n-1) :
            LET r == out[a].rows[i]
            IN /\ r.tat = r.resp + r.wait
               /\ a \in NonPreemptive => r.resp = r.wait

\* C14 amended: in every driver's output turnaround = waiting + burst for every
\* process, and response = waiting under FCFS and SJF.
C14_Metrics ==
    \A a \in Algs : Ran(a) =>
        \A i \in 0..(n-1) :
            LET r == out[a].rows[i]
            IN /\ r.tat = r.wait + r.burst
               /\ a \in NonPreemptive => r.resp = r.wait

\* all four drivers have reported; some process waited under FCFS, and some
\* process was preempted under SRTF so that its waiting exceeds its response
C14_Witness ==
    /\ pc = "done"
    /\ \E i \in 0..(n-1) : out["FCFS"].rows[i].wait > 0
    /\ \E i \in 0..(n-1) : out["SRTF"].rows[i].wait > out["SRTF"].rows[i].resp
    /\ \E i \in 0..(n-1) : out["RR"].rows[i].tat # out["RR"].rows[i].resp + out["RR"].rows[i].wait

\* ---------------------------------------------------------------- C15
\* index of the process with the given pid
IndexOf(pid) == CHOOSE i \in 0..(n-1) : pr[i].pid = pid

\* the driver in progress has already dispatched process j
Dispatched(j) == \E x \in 1..Len(dispatch) : dispatch[x] = pr[j].pid

\* i comes strictly before j under (burst, arrival, pid), all ascending
SjfBefore(i, j) ==
    \/ pr[i].burst < pr[j].burst
    \/ pr[i].burst = pr[j].burst /\ pr[i].arrival < pr[j].arrival
    \/ pr[i].burst = pr[j].burst /\ pr[i].arrival = pr[j].arrival /\ pr[i].pid < pr[j].pid

\* C15: at every dispatch of run_sjf at clock t, the extracted process has
\* arrived, is not completed, and comes before every other arrived and not
\* completed process under (burst, arrival, pid); it then runs as one segment
\* [t, t + burst) with Start = t and End = t + burst.
C15_SjfPicksMinimum ==
    [][ (pc = "sjf_loop" /\ cnt' = cnt + 1) =>
          LET i == IndexOf(dispatch'[Len(dispatch')])
          IN /\ Len(dispatch') = Len(dispatch) + 1
             /\ pr[i].arrival <= t /\ ~Dispatched(i)
             /\ \A j \in 0..(n-1) :
                  (j # i /\ pr[j].arrival <= t /\ ~Dispatched(j)) => SjfBefore(i, j)
             /\ start'[i] = t /\ end'[i] = t + pr[i].burst /\ t' = t + pr[i].burst
             /\ sv' = seg_push(sv, Seg(pr[i].pid, t, t + pr[i].burst)) ]_vars

\* a dispatch has happened while another arrived process stayed in the heap,
\* one of equal burst among them
C15_Witness ==
    /\ pc = "sjf_loop" /\ cnt >= 1 /\ Len(hp) >= 1
    /\ \E x \in 1..Len(hp) :
         /\ pr[hp[x]].burst = pr[IndexOf(dispatch[Len(dispatch)])].burst
         /\ pr[hp[x]].arrival < t - pr[hp[x]].burst

\* ---------------------------------------------------------------- C16
\* i comes strictly before j under (remaining, arrival, pid), all ascending
SrtfBefore(rm, i, j) ==
    \/ rm[i] < rm[j]
    \/ rm[i] = rm[j] /\ pr[i].arrival < pr[j].arrival
    \/ rm[i] = rm[j] /\ pr[i].arrival = pr[j].arrival /\ pr[i].pid < pr[j].pid

\* processes that a unit-stepping SRTF may run during [u, u+1)
UnitReady(rm, u) == { i \in 0..(n-1) : pr[i].arrival <= u /\ rm[i] > 0 }

\* unit-stepping SRTF from time u with remaining times rm: the owners of
\* [u, u+1), [u+1, u+2), ... until every process is complete, appended to acc
RECURSIVE UnitSrtf(_, _, _)
UnitSrtf(rm, u, acc) ==
    IF \A i \in 0..(n-1) : rm[i] = 0 THEN acc
    ELSE IF UnitReady(rm, u) = {} THEN UnitSrtf(rm, u + 1, Append(acc, IDLE))
    ELSE LET i == CHOOSE x \in UnitReady(rm, u) :
                      \A y \in UnitReady(rm, u) \ {x} : SrtfBefore(rm, x, y)
         IN UnitSrtf([rm EXCEPT ![i] = rm[i] - 1], u + 1, Append(acc, pr[i].pid))

\* owners of the ticks 0, 1, 2, ... (at positions 1, 2, 3, ...)
UnitOwners == UnitSrtf([i \in 0..(n-1) |-> pr[i].burst], 0, <<>>)

\* owner of the segment of v that covers [u, u+1)
OwnerAt(v, u) == v[CHOOSE x \in 1..Len(v) : v[x].start <= u /\ u < v[x].end].pid

\* C16: for every integer time u of run_srtf's timeline, the owner of the
\* segment covering [u, u+1) is the process a unit-stepping SRTF runs at u: the
\* minimum under (remaining at u, arrival, pid) among the arrived processes
\* with remaining > 0, and IDLE when there is none; the two end together.
C16_SrtfEqualsUnitStepping ==
    Ran("SRTF") =>
        LET v == out["SRTF"].sv
        IN /\ v # <<>>
           /\ v[Len(v)].end = Len(UnitOwners)
           /\ \A u \in v[1].start..(v[Len(v)].end - 1) :
                /\ \E x \in 1..Len(v) : v[x].start <= u /\ u < v[x].end
                /\ OwnerAt(v, u) = UnitOwners[u + 1]

\* run_srtf has returned a timeline of three processes in which one was
\* preempted and resumed later
C16_Witness ==
    /\ Ran("SRTF") /\ n = 3
    /\ \E x, y \in 1..Len(out["SRTF"].sv) :
         x + 1 < y /\ out["SRTF"].sv[x].pid = out["SRTF"].sv[y].pid
                   /\ out["SRTF"].sv[x].pid # IDLE

\* ---------------------------------------------------------------- C17
Distinct(s) == \A x, y \in 1..Len(s) : x # y => s[x] # s[y]

\* C17: between the steps of run_sjf, run_srtf and run_rr the ready heap/queue
\* holds at most one entry per process and none for a completed process; the
\* RR queue of capacity n holds at most n entries, inq marks exactly the queued
\* processes, and no driver leaves through the overflow/underflow exit.
C17_OneEntryPerProcess ==
    /\ pc # "exit"
    /\ pc = "sjf_loop" =>
          /\ Distinct(hp)
          /\ \A x \in 1..Len(hp) : ~Dispatched(hp[x]) /\ ~IsSet(end[hp[x]])
    /\ pc = "srtf_loop" =>
          /\ Distinct(hp)
          /\ \A x \in 1..Len(hp) : rem[hp[x]] > 0 /\ ~IsSet(end[hp[x]])
    /\ pc = "rr_loop" =>
          /\ rq.cap = n /\ rq.size >= 0 /\ rq.size <= rq.cap
          /\ Distinct(q_items(rq))
          /\ \A x \in 1..rq.size : rem[q_items(rq)[x]] > 0 /\ ~IsSet(end[q_items(rq)[x]])
          /\ \A i \in 0..(n-1) : inq[i] = 1 <=> QPos(rq, i) > 0

\* the RR queue is at capacity after a requeue, with three processes
C17_Witness ==
    /\ pc = "rr_loop" /\ n = 3 /\ rq.size = rq.cap
    /\ Len(dispatch) >= 1 /\ rq.front # 0

\* ---------------------------------------------------------------- C18
RemLoops == {"srtf_loop", "rr_loop"}

\* the step dispatches process i (run_srtf peeks it, run_rr pops it)
Dispatches(i) == dispatch' = Append(dispatch, pr[i].pid)

\* C18: in run_srtf and run_rr remaining[i] starts at burst[i]; in every loop
\* step it stays within 0..old value, drops by exactly the clock advance when
\* i is the dispatched process and is unchanged otherwise; End[i] is written
\* only once, with the clock, in the step where remaining[i] becomes 0, and
\* Start[i] only once, with the dispatch clock, at i's first dispatch.
C18_RemainingDiscipline ==
    [][ /\ (pc \in {"run_srtf", "run_rr"} /\ pc' \in RemLoops) =>
              \A i \in 0..(n-1) :
                  rem'[i] = pr[i].burst /\ start'[i] = Unset /\ end'[i] = Unset
        /\ (pc \in RemLoops /\ pc' = pc) =>
              \A i \in 0..(n-1) :
                  /\ 0 <= rem'[i] /\ rem'[i] <= rem[i]
                  /\ Dispatches(i) => rem[i] - rem'[i] = t' - t
                  /\ ~Dispatches(i) => rem'[i] = rem[i]
                  /\ end'[i] # end[i] <=> (rem[i] > 0 /\ rem'[i] = 0)
                  /\ end'[i] # end[i] => (end[i] = Unset /\ end'[i] = t')
                  /\ start'[i] # start[i] <=> (Dispatches(i) /\ rem[i] = pr[i].burst)
                  /\ start'[i] # start[i] => (start[i] = Unset /\ start'[i] = t) ]_vars

\* run_rr is under way: one process is partly run, one is complete and one
\* has not been dispatched yet
C18_Witness ==
    /\ pc = "rr_loop"
    /\ \E i, j, l \in 0..(n-1) :
         /\ 0 < rem[i] /\ rem[i] < pr[i].burst /\ IsSet(start[i]) /\ ~IsSet(end[i])
         /\ rem[j] = 0 /\ IsSet(end[j])
         /\ rem[l] = pr[l].burst /\ ~IsSet(start[l])

\* ---------------------------------------------------------------- C19
\* driver a reports process i complete by time u
CompleteBy(a, i, u) == IsSet(out[a].rows[i].end) /\ out[a].rows[i].end <= u

\* C19: in the timeline of each of the four drivers, an IDLE segment [a,b)
\* covers a time u only if every process with arrival <= u is complete by u.
C19_WorkConserving ==
    \A a \in Algs : Ran(a) =>
        \A x \in 1..Len(out[a].sv) :
            out[a].sv[x].pid = IDLE =>
                \A u \in out[a].sv[x].start..(out[a].sv[x].end - 1) :
                    \A i \in 0..(n-1) : pr[i].arrival <= u => CompleteBy(a, i, u)

\* all four drivers have reported a timeline with an idle gap between the run
\* of one process and the arrival of another
C19_Witness ==
    /\ pc = "done" /\ n >= 2
    /\ \A a \in Algs :
         \E x \in 2..Len(out[a].sv) :
            /\ out[a].sv[x].pid = IDLE
            /\ \E i \in 0..(n-1) : out[a].rows[i].end = out[a].sv[x].start
            /\ \E i \in 0..(n-1) : pr[i].arrival = out[a].sv[x].end

\* ---------------------------------------------------------------- C20
\* the timeline of the driver in progress, its open segment included
Timeline == IF cur = NoSeg THEN sv ELSE Append(sv, Seg(cur, seg_start, t))

\* end of the latest slice of process i in the timeline: the clock at which
\* run_rr requeued it
LastEnd(i) ==
    LET own == { x \in 1..Len(Timeline) : Timeline[x].pid = pr[i].pid }
    IN Timeline[CHOOSE x \in own : \A y \in own : y <= x].end

\* the clock at which queued process i was pushed: its requeue clock, or for a
\* process not dispatched yet its arrival, which its admission cannot precede
PushedBy(i) == IF IsSet(start[i]) THEN LastEnd(i) ELSE pr[i].arrival

\* C20: every pop of run_rr happens at a clock no later than (n-1)*Q after the
\* popped process was pushed, and the popped process has not been dispatched
\* since any process still waiting in the queue was pushed.
C20_RrBoundedWait ==
    [][ (pc = "rr_loop" /\ pc' = "rr_loop" /\ dispatch' # dispatch) =>
          LET i == q_items(rq)[1]
          IN /\ Dispatches(i)
             /\ t <= PushedBy(i) + (n - 1) * quantum
             /\ \A j \in 0..(n-1) :
                  (QPos(rq, j) > 1 /\ IsSet(start[i])) => LastEnd(i) < PushedBy(j) ]_vars

\* three processes under run_rr: one waited the full (n-1)*Q from its arrival
\* to its first dispatch, and one has been requeued and dispatched again
C20_Witness ==
    /\ pc = "rr_loop" /\ n = 3
    /\ \E i \in 0..(n-1) : start[i] = pr[i].arrival + (n - 1) * quantum
    /\ \E j \in 0..(n-1) : rem[j] > 0 /\ rem[j] + quantum < pr[j].burst

====
